---- MODULE Spec2Model ----
(***************************************************************************)
(* A model of the rdns wire codec: the packet buffer (server/buffer.rs)    *)
(* and the header, question, record and packet codecs                      *)
(* (server/protocol.rs).                                                   *)
(*                                                                         *)
(* A byte is a number in 0..255, a String is the sequence of its bytes     *)
(* (ASCII), a io::Result is a record [ok, err, b, val]: b is the buffer    *)
(* as the call left it (the buffer is mutated in place, so a failed call   *)
(* keeps what it wrote before failing), val the value returned on Ok.      *)
(***************************************************************************)
EXTENDS Integers, Sequences, FiniteSets, TLC

VARIABLES buffer, pc, packet, dns_packet, result, header, record, qname, start, msgLen, qn,
          firstPtr, lastAt, origin, range_len

vars == <<buffer, pc, packet, dns_packet, result, header, record, qname, start, msgLen, qn,
          firstPtr, lastAt, origin, range_len>>

(***************************************************************************)
(* Bounds of the model.                                                    *)
(***************************************************************************)
\* most loop iterations of read_qname the packet decoder follows in one name
MaxIter == 12
\* longest accumulated name the stepwise read_qname is followed to
MaxOut == 6

(***************************************************************************)
(* Integer arithmetic of the fixed-width types.                            *)
(***************************************************************************)
RECURSIVE BitAnd(_, _)
BitAnd(a, b) ==
    IF a = 0 \/ b = 0 THEN 0
    ELSE (a % 2) * (b % 2) + 2 * BitAnd(a \div 2, b \div 2)

RECURSIVE BitOr(_, _)
BitOr(a, b) ==
    IF a = 0 THEN b
    ELSE IF b = 0 THEN a
    ELSE (IF a % 2 = 1 \/ b % 2 = 1 THEN 1 ELSE 0) + 2 * BitOr(a \div 2, b \div 2)

RECURSIVE BitXor(_, _)
BitXor(a, b) ==
    IF a = 0 THEN b
    ELSE IF b = 0 THEN a
    ELSE ((a + b) % 2) + 2 * BitXor(a \div 2, b \div 2)

\* x << n on a u8: the bits shifted out are lost
Shl8(x, n) == (x * (2 ^ n)) % 256

\* x << n on a u16
Shl16(x, n) == (x * (2 ^ n)) % 65536

Shr(x, n) == x \div (2 ^ n)

\* bool as u8
AsU8(flag) == IF flag THEN 1 ELSE 0

\* usize as u16
AsU16(n) == n % 65536

(***************************************************************************)
(* BytePacketBuffer: buf: [u8; 512], pos: usize.                           *)
(***************************************************************************)
BufSize == 512

Ok(b, v) == [ok |-> TRUE, err |-> "", b |-> b, val |-> v]

Err(b, e, v) == [ok |-> FALSE, err |-> e, b |-> b, val |-> v]

\* every failure of the buffer is an io::Error of kind InvalidInput; only the
\* message tells the end of the buffer from the label limit
EndOfBuffer == "End of Buffer"

LabelTooLong == "Single label exceeds 63 chars"

ErrorKind(e) == IF e \in {EndOfBuffer, LabelTooLong} THEN "InvalidInput" ELSE "Other"

\* buf[i] of the code is buf[i + 1] here: a sequence starts at 1
BufferNew == [buf |-> [i \in 1..BufSize |-> 0], pos |-> 0]

Get(b, pos) ==
    IF pos >= BufSize THEN Err(b, EndOfBuffer, 0) ELSE Ok(b, b.buf[pos + 1])

GetRange(b, from, len) ==
    IF from + len >= BufSize THEN Err(b, EndOfBuffer, <<>>)
    ELSE Ok(b, [i \in 1..len |-> b.buf[from + i]])

Read(b) ==
    IF b.pos >= BufSize THEN Err(b, EndOfBuffer, 0)
    ELSE Ok([b EXCEPT !.pos = b.pos + 1], b.buf[b.pos + 1])

Write(b, val) ==
    IF b.pos >= BufSize THEN Err(b, EndOfBuffer, 0)
    ELSE Ok([buf |-> [b.buf EXCEPT ![b.pos + 1] = val], pos |-> b.pos + 1], 0)

Set(b, pos, val) ==
    IF pos >= BufSize THEN Err(b, EndOfBuffer, 0)
    ELSE Ok([b EXCEPT !.buf[pos + 1] = val], 0)

Seek(b, pos) == Ok([b EXCEPT !.pos = pos], 0)

Step(b, steps) == Ok([b EXCEPT !.pos = b.pos + steps], 0)

\* the ? operator: go on with the buffer of an Ok, return an Err as it is
Then(r, F(_)) == IF r.ok THEN F(r.b) ELSE r

\* the ? operator where the value of the Ok is used
ThenVal(r, F(_, _)) == IF r.ok THEN F(r.b, r.val) ELSE r

SetU16(b, pos, val) ==
    Then(Set(b, pos, Shr(val, 8) % 256),
         LAMBDA b1: Set(b1, pos + 1, BitAnd(val, 255)))

WriteU16(b, val) ==
    Then(Write(b, BitAnd(Shr(val, 8), 255)),
         LAMBDA b1: Write(b1, BitAnd(Shr(val, 0), 255)))

\* A u32 is the pair <<bits 31..16, bits 15..0>> of its two halves (TLC's
\* integers end below 2^31): U32(n) is the u32 of a number below 2^31.
U32(n) == <<n \div 65536, n % 65536>>

\* (val >> n) & 0xFF of a u32, for n = 24, 16, 8, 0
U32Byte(val, n) ==
    IF n >= 16 THEN BitAnd(Shr(val[1], n - 16), 255) ELSE BitAnd(Shr(val[2], n), 255)

WriteU32(b, val) ==
    Then(Write(b, U32Byte(val, 24)),
         LAMBDA b1: Then(Write(b1, U32Byte(val, 16)),
         LAMBDA b2: Then(Write(b2, U32Byte(val, 8)),
         LAMBDA b3: Write(b3, U32Byte(val, 0)))))

\* n calls of read, each with ?: the bytes read, or the first error
RECURSIVE ReadBytes(_, _, _)
ReadBytes(b, n, bytes) ==
    IF n = 0 THEN Ok(b, bytes)
    ELSE ThenVal(Read(b),
                 LAMBDA b1, byte: ReadBytes(b1, n - 1, Append(bytes, byte)))

ReadU16(b) ==
    ThenVal(ReadBytes(b, 2, <<>>),
            LAMBDA b1, v: Ok(b1, BitOr(Shl16(v[1], 8), v[2])))

ReadU32(b) ==
    ThenVal(ReadBytes(b, 4, <<>>),
            LAMBDA b1, v: Ok(b1, <<BitOr(Shl16(v[1], 8), v[2]),
                                   BitOr(Shl16(v[3], 8), v[4])>>))

\* for b in bytes { self.write(*b)?; }: the bytes that fit before the end
\* of the buffer are written, and the first that does not fit fails
WriteBytes(b, bytes) ==
    LET room == IF b.pos >= BufSize THEN 0 ELSE BufSize - b.pos
        n == IF Len(bytes) <= room THEN Len(bytes) ELSE room
        b1 == [buf |-> [i \in 1..BufSize |->
                          IF i > b.pos /\ i <= b.pos + n THEN bytes[i - b.pos]
                          ELSE b.buf[i]],
               pos |-> b.pos + n]
    IN  IF n < Len(bytes) THEN Err(b1, EndOfBuffer, 0) ELSE Ok(b1, 0)

(***************************************************************************)
(* Domain names: write_qname and read_qname.                               *)
(***************************************************************************)
\* the byte of '.'
Dot == 46

\* the most bytes of a label
LabelLimit == 63

\* index of the first '.' of s, 0 when it has none
FirstDot(s) ==
    IF \E i \in 1..Len(s) : s[i] = Dot
    THEN CHOOSE i \in 1..Len(s) : s[i] = Dot /\ \A j \in 1..(i - 1) : s[j] # Dot
    ELSE 0

\* qname.split("."): "" gives one empty label, "a." gives "a" and ""
RECURSIVE Split(_)
Split(s) ==
    LET i == FirstDot(s)
    IN  IF i = 0 THEN <<s>>
        ELSE <<SubSeq(s, 1, i - 1)>> \o Split(SubSeq(s, i + 1, Len(s)))

\* the body of the loop of write_qname, over the labels left
\* a check that lets a label of 64 bytes through
ExceedsLabelLimitOffByOne(len) == len > LabelLimit + 1

\* if len > 0x3f
ExceedsLabelLimit(len) == len > LabelLimit

RECURSIVE WriteLabels(_, _)
WriteLabels(b, labels) ==
    IF labels = <<>> THEN Ok(b, 0)
    ELSE LET label == Head(labels)
             len == Len(label)
         IN  IF ExceedsLabelLimit(len) THEN Err(b, LabelTooLong, 0)
             ELSE Then(Write(b, len),
                  LAMBDA b1: Then(WriteBytes(b1, label),
                  LAMBDA b2: WriteLabels(b2, Tail(labels))))

WriteQname(b, name) == WriteLabels(b, Split(name))

\* to_lowercase of one ASCII byte (the names of the model are ASCII, where
\* from_utf8_lossy changes nothing)
LowerByte(c) == IF c >= 65 /\ c <= 90 THEN c + 32 ELSE c

ToLowercase(bytes) == [i \in 1..Len(bytes) |-> LowerByte(bytes[i])]

\* the locals of read_qname on entry; ctl is where the call stands: in the
\* loop, after its break, or returned with an error
ReadQnameEnter(b, outstr) ==
    [pos |-> b.pos, delimeter |-> <<>>, jumped |-> FALSE, outstr |-> outstr,
     ctl |-> "loop", err |-> ""]

\* a pointer target computed from the length byte with its two high bits
JumpTargetNoMask(len, next_byte) == BitOr(Shl16(len, 8), next_byte)

\* the offset a pointer gives: the length byte without its two high bits,
\* then the next byte
JumpTarget(len, next_byte) == BitOr(Shl16(BitXor(len, 192), 8), next_byte)

\* one iteration of the loop of read_qname
ReadQnameIter(b, st) ==
    LET g == Get(b, st.pos)
        len == g.val
    IN  IF ~g.ok THEN [b |-> b, st |-> [st EXCEPT !.ctl = "err", !.err = g.err]]
        ELSE IF BitAnd(len, 192) = 192
        THEN LET b1 == IF ~st.jumped THEN Seek(b, st.pos + 2).b ELSE b
                 g2 == Get(b1, st.pos + 1)
             IN  IF ~g2.ok
                 THEN [b |-> b1, st |-> [st EXCEPT !.ctl = "err", !.err = g2.err]]
                 ELSE [b |-> b1,
                       st |-> [st EXCEPT !.pos = JumpTarget(len, g2.val),
                                         !.jumped = TRUE]]
        ELSE IF len = 0
        THEN [b |-> b, st |-> [st EXCEPT !.pos = st.pos + 1, !.ctl = "break"]]
        ELSE LET pos1 == st.pos + 1
                 out1 == st.outstr \o st.delimeter
                 gr == GetRange(b, pos1, len)
             IN  IF ~gr.ok
                 THEN [b |-> b, st |-> [st EXCEPT !.pos = pos1, !.outstr = out1,
                                                  !.ctl = "err", !.err = gr.err]]
                 ELSE [b |-> b,
                       st |-> [st EXCEPT !.pos = pos1 + len,
                                         !.outstr = out1 \o ToLowercase(gr.val),
                                         !.delimeter = <<Dot>>]]

\* an exit that moves the cursor whether a pointer was followed or not
ReadQnameExitAlwaysSeeks(b, st) == Seek(b, st.pos).b

\* what follows the loop of read_qname: the cursor moves only if no pointer
\* was followed
ReadQnameExit(b, st) ==
    IF ~st.jumped THEN Seek(b, st.pos).b ELSE b

\* the loop of read_qname, followed for at most fuel iterations: n is the
\* buffer and the locals
RECURSIVE ReadQnameLoop(_, _)
ReadQnameLoop(n, fuel) ==
    IF n.st.ctl # "loop" \/ fuel = 0 THEN n
    ELSE ReadQnameLoop(ReadQnameIter(n.b, n.st), fuel - 1)

\* a name whose loop has not ended after MaxIter iterations is reported as
\* Unfinished: the packets of the model hold no such name
Unfinished == "read_qname still in its loop"

\* what read_qname returns once its loop is left
ReadQnameResult(n) ==
    IF n.st.ctl = "err" THEN Err(n.b, n.st.err, n.st.outstr)
    ELSE IF n.st.ctl = "loop" THEN Err(n.b, Unfinished, n.st.outstr)
    ELSE Ok(ReadQnameExit(n.b, n.st), n.st.outstr)

ReadQname(b, outstr) ==
    ReadQnameResult(ReadQnameLoop([b |-> b, st |-> ReadQnameEnter(b, outstr)],
                                  MaxIter))

(***************************************************************************)
(* DNSHeader.                                                              *)
(***************************************************************************)
ResultCodes == <<"NOERROR", "FORMERR", "SERVFAIL", "NXDOMAIN", "NOTIMP", "REFUSED">>

\* rescode as u8
ResultCodeAsU8(rc) == CHOOSE n \in 0..5 : ResultCodes[n + 1] = rc

ResultCodeFromNum(num) == IF num \in 1..5 THEN ResultCodes[num + 1] ELSE "NOERROR"

DNSHeaderNew ==
    [id |-> 0,
     recursion_desired |-> FALSE, truncated_message |-> FALSE,
     authoritative_answer |-> FALSE, opcode |-> 0, response |-> FALSE,
     rescode |-> "NOERROR", checking_disabled |-> FALSE, authed_data |-> FALSE,
     z |-> FALSE, recursion_available |-> FALSE,
     questions |-> 0, answers |-> 0, authoritative_entries |-> 0,
     additional_entries |-> 0]

\* the fields read from the two flag bytes
HeaderFlags(self, a, b) ==
    [self EXCEPT !.recursion_desired = BitAnd(a, Shl8(1, 0)) > 0,
                 !.truncated_message = BitAnd(a, Shl8(1, 1)) > 0,
                 !.authoritative_answer = BitAnd(a, Shl8(1, 2)) > 0,
                 !.opcode = BitAnd(Shr(a, 3), 15),
                 !.response = BitAnd(a, Shl8(1, 7)) > 0,
                 !.rescode = ResultCodeFromNum(BitAnd(b, 15)),
                 !.checking_disabled = BitAnd(b, Shl8(1, 4)) > 0,
                 !.authed_data = BitAnd(b, Shl8(1, 5)) > 0,
                 !.z = BitAnd(b, Shl8(1, 6)) > 0,
                 !.recursion_available = BitAnd(b, Shl8(1, 7)) > 0]

\* DNSHeader::read
HeaderRead(self, b) ==
    ThenVal(ReadU16(b), LAMBDA b1, id:
    ThenVal(ReadU16(b1), LAMBDA b2, flags:
    ThenVal(ReadU16(b2), LAMBDA b3, questions:
    ThenVal(ReadU16(b3), LAMBDA b4, answers:
    ThenVal(ReadU16(b4), LAMBDA b5, authoritative_entries:
    ThenVal(ReadU16(b5), LAMBDA b6, additional_entries:
        Ok(b6, [HeaderFlags(self, Shr(flags, 8) % 256, BitAnd(flags, 255))
                   EXCEPT !.id = id,
                          !.questions = questions,
                          !.answers = answers,
                          !.authoritative_entries = authoritative_entries,
                          !.additional_entries = additional_entries])))))))

\* the first flag byte DNSHeader::write packs
HeaderByteA(self) ==
    BitOr(BitOr(BitOr(Shl8(AsU8(self.recursion_desired), 0),
                      Shl8(AsU8(self.truncated_message), 1)),
                BitOr(Shl8(AsU8(self.authoritative_answer), 2),
                      Shl8(self.opcode, 3))),
          Shl8(AsU8(self.response), 7))

\* a second flag byte with the bits of authed_data and z in each other's place
HeaderByteBSwapped(self) ==
    BitOr(BitOr(BitOr(ResultCodeAsU8(self.rescode),
                      Shl8(AsU8(self.checking_disabled), 4)),
                BitOr(Shl8(AsU8(self.authed_data), 6),
                      Shl8(AsU8(self.z), 5))),
          Shl8(AsU8(self.recursion_available), 7))

\* the second flag byte DNSHeader::write packs
HeaderByteB(self) ==
    BitOr(BitOr(BitOr(ResultCodeAsU8(self.rescode),
                      Shl8(AsU8(self.checking_disabled), 4)),
                BitOr(Shl8(AsU8(self.authed_data), 5),
                      Shl8(AsU8(self.z), 6))),
          Shl8(AsU8(self.recursion_available), 7))

HeaderWrite(self, b) ==
    Then(WriteU16(b, self.id),
         LAMBDA b1: Then(Write(b1, HeaderByteA(self)),
         LAMBDA b2: Then(Write(b2, HeaderByteB(self)),
         LAMBDA b3: Then(WriteU16(b3, self.questions),
         LAMBDA b4: Then(WriteU16(b4, self.answers),
         LAMBDA b5: Then(WriteU16(b5, self.authoritative_entries),
         LAMBDA b6: WriteU16(b6, self.additional_entries)))))))

None == "none"

(***************************************************************************)
(* QueryType and DNSQuestion.                                              *)
(***************************************************************************)
\* a QueryType: one of the nine named ones, or UNKNOWN(x)
QT(tag) == [tag |-> tag, x |-> 0]

UnknownQT(x) == [tag |-> "UNKNOWN", x |-> x]

ToNum(qt) ==
    CASE qt.tag = "UNKNOWN" -> qt.x
      [] qt.tag = "A"       -> 1
      [] qt.tag = "NS"      -> 2
      [] qt.tag = "CNAME"   -> 5
      [] qt.tag = "SOA"     -> 6
      [] qt.tag = "MX"      -> 15
      [] qt.tag = "TXT"     -> 16
      [] qt.tag = "AAAA"    -> 28
      [] qt.tag = "SRV"     -> 33
      [] qt.tag = "OPT"     -> 44

FromNum(num) ==
    CASE num = 1  -> QT("A")
      [] num = 2  -> QT("NS")
      [] num = 5  -> QT("CNAME")
      [] num = 6  -> QT("SOA")
      [] num = 15 -> QT("MX")
      [] num = 16 -> QT("TXT")
      [] num = 28 -> QT("AAAA")
      [] num = 33 -> QT("SRV")
      [] num = 44 -> QT("OPT")
      [] OTHER    -> UnknownQT(num)

DNSQuestionNew(name, q_type) == [name |-> name, q_type |-> q_type]

\* DNSQuestion::read: val is the question as the call left it
QuestionRead(self, b) ==
    ThenVal(ReadQname(b, self.name), LAMBDA b1, name:
    ThenVal(ReadU16(b1), LAMBDA b2, q_type:
    ThenVal(ReadU16(b2), LAMBDA b3, class:
        Ok(b3, [self EXCEPT !.name = name, !.q_type = FromNum(q_type)]))))

QuestionWrite(self, b) ==
    Then(WriteQname(b, self.name),
         LAMBDA b1: Then(WriteU16(b1, ToNum(self.q_type)),
         LAMBDA b2: WriteU16(b2, 1)))

(***************************************************************************)
(* DNSRecord: a record [kind, ...] with the fields of its variant; an      *)
(* Ipv4Addr is its four octets, an Ipv6Addr its eight segments.            *)
(***************************************************************************)
\* name, type, class and TTL, which every serialised arm of write begins with
WriteRecordHead(b, domain, q_type, ttl) ==
    Then(WriteQname(b, domain),
         LAMBDA b1: Then(WriteU16(b1, ToNum(q_type)),
         LAMBDA b2: Then(WriteU16(b2, 1),
         LAMBDA b3: WriteU32(b3, ttl))))

\* a data length that counts its own two bytes
PatchDataLengthFromField(b, pos) ==
    LET data_len == b.pos - pos
    IN  SetU16(b, pos, AsU16(data_len))

\* let data_len = buffer.pos() - (pos + 2); buffer.set_u16(pos, data_len as u16)
PatchDataLength(b, pos) ==
    LET data_len == b.pos - (pos + 2)
    IN  SetU16(b, pos, AsU16(data_len))

\* for octet in &addr.segments() { buffer.write_u16(*octet)?; }
RECURSIVE WriteSegments(_, _)
WriteSegments(b, segments) ==
    IF segments = <<>> THEN Ok(b, 0)
    ELSE Then(WriteU16(b, Head(segments)), LAMBDA b1: WriteSegments(b1, Tail(segments)))

\* the A arm of DNSRecord::write
RecordWriteA(self, b) ==
    Then(WriteRecordHead(b, self.domain, QT("A"), self.ttl),
         LAMBDA b1: Then(WriteU16(b1, 4),
         LAMBDA b2: WriteBytes(b2, self.addr)))

\* the AAAA arm: the data length is written with write_u32
RecordWriteAAAA(self, b) ==
    Then(WriteRecordHead(b, self.domain, QT("AAAA"), self.ttl),
         LAMBDA b1: Then(WriteU32(b1, U32(16)),
         LAMBDA b2: WriteSegments(b2, self.addr)))

\* the NS and CNAME arms
RecordWriteHost(self, b) ==
    Then(WriteRecordHead(b, self.domain, QT(self.kind), self.ttl),
         LAMBDA b1: Then(WriteU16(b1, 0),
         LAMBDA b2: Then(WriteQname(b2, self.host),
         LAMBDA b3: PatchDataLength(b3, b1.pos))))

RecordWriteSRV(self, b) ==
    Then(WriteRecordHead(b, self.domain, QT("SRV"), self.ttl),
         LAMBDA b1: Then(WriteU16(b1, 0),
         LAMBDA b2: Then(WriteU16(b2, self.priority),
         LAMBDA b3: Then(WriteU16(b3, self.weight),
         LAMBDA b4: Then(WriteU16(b4, self.port),
         LAMBDA b5: Then(WriteQname(b5, self.host),
         LAMBDA b6: PatchDataLength(b6, b1.pos)))))))

RecordWriteMX(self, b) ==
    Then(WriteRecordHead(b, self.domain, QT("MX"), self.ttl),
         LAMBDA b1: Then(WriteU16(b1, 0),
         LAMBDA b2: Then(WriteU16(b2, self.priority),
         LAMBDA b3: Then(WriteQname(b3, self.host),
         LAMBDA b4: PatchDataLength(b4, b1.pos)))))

RecordWriteSOA(self, b) ==
    Then(WriteRecordHead(b, self.domain, QT("SOA"), self.ttl),
         LAMBDA b1: Then(WriteU16(b1, 0),
         LAMBDA b2: Then(WriteQname(b2, self.m_name),
         LAMBDA b3: Then(WriteQname(b3, self.r_name),
         LAMBDA b4: Then(WriteU32(b4, self.serial),
         LAMBDA b5: Then(WriteU32(b5, self.refresh),
         LAMBDA b6: Then(WriteU32(b6, self.retry),
         LAMBDA b7: Then(WriteU32(b7, self.expire),
         LAMBDA b8: Then(WriteU32(b8, self.minimum),
         LAMBDA b9: PatchDataLength(b9, b1.pos))))))))))

RecordWriteTXT(self, b) ==
    Then(WriteRecordHead(b, self.domain, QT("TXT"), self.ttl),
         LAMBDA b1: Then(WriteU16(b1, AsU16(Len(self.data))),
         LAMBDA b2: WriteBytes(b2, self.data)))

\* the match of DNSRecord::write: OPT and UNKNOWN write nothing
RecordWriteArm(self, b) ==
    CASE self.kind = "A" -> RecordWriteA(self, b)
      [] self.kind = "AAAA" -> RecordWriteAAAA(self, b)
      [] self.kind \in {"NS", "CNAME"} -> RecordWriteHost(self, b)
      [] self.kind = "SRV" -> RecordWriteSRV(self, b)
      [] self.kind = "MX" -> RecordWriteMX(self, b)
      [] self.kind = "SOA" -> RecordWriteSOA(self, b)
      [] self.kind = "TXT" -> RecordWriteTXT(self, b)
      [] self.kind = "OPT" -> Ok(b, 0)
      [] self.kind = "UNKNOWN" -> Ok(b, 0)

\* DNSRecord::write: val is the number of bytes written
RecordWrite(self, b) ==
    LET start_pos == b.pos
        r == RecordWriteArm(self, b)
    IN  IF ~r.ok THEN r ELSE Ok(r.b, r.b.pos - start_pos)

\* Ipv4Addr::new of the four bytes of raw_addr
Ipv4Octets(raw_addr) ==
    <<U32Byte(raw_addr, 24), U32Byte(raw_addr, 16),
      U32Byte(raw_addr, 8), U32Byte(raw_addr, 0)>>

\* the two segments of an Ipv6Addr one u32 holds
Ipv6Pair(raw_addr) ==
    <<BitAnd(raw_addr[1], 65535), BitAnd(raw_addr[2], 65535)>>

\* the match of DNSRecord::read, after name, type, class, TTL and data length
RecordReadArm(b, domain, q_type_num, class, ttl_num, data_len) ==
    LET q_type == FromNum(q_type_num)
    IN  CASE q_type.tag = "A" ->
               ThenVal(ReadU32(b), LAMBDA b1, raw_addr:
                   Ok(b1, [kind |-> "A", domain |-> domain,
                           addr |-> Ipv4Octets(raw_addr), ttl |-> ttl_num]))
          [] q_type.tag = "AAAA" ->
               ThenVal(ReadU32(b), LAMBDA b1, raw_addr1:
               ThenVal(ReadU32(b1), LAMBDA b2, raw_addr2:
               ThenVal(ReadU32(b2), LAMBDA b3, raw_addr3:
               ThenVal(ReadU32(b3), LAMBDA b4, raw_addr4:
                   Ok(b4, [kind |-> "AAAA", domain |-> domain,
                           addr |-> Ipv6Pair(raw_addr1) \o Ipv6Pair(raw_addr2)
                                    \o Ipv6Pair(raw_addr3) \o Ipv6Pair(raw_addr4),
                           ttl |-> ttl_num])))))
          [] q_type.tag \in {"NS", "CNAME"} ->
               ThenVal(ReadQname(b, <<>>), LAMBDA b1, host:
                   Ok(b1, [kind |-> q_type.tag, domain |-> domain,
                           host |-> host, ttl |-> ttl_num]))
          [] q_type.tag = "SRV" ->
               ThenVal(ReadU16(b), LAMBDA b1, priority:
               ThenVal(ReadU16(b1), LAMBDA b2, weight:
               ThenVal(ReadU16(b2), LAMBDA b3, port:
               ThenVal(ReadQname(b3, <<>>), LAMBDA b4, host:
                   Ok(b4, [kind |-> "SRV", domain |-> domain,
                           priority |-> priority, weight |-> weight,
                           port |-> port, host |-> host, ttl |-> ttl_num])))))
          [] q_type.tag = "MX" ->
               ThenVal(ReadU16(b), LAMBDA b1, priority:
               ThenVal(ReadQname(b1, <<>>), LAMBDA b2, host:
                   Ok(b2, [kind |-> "MX", domain |-> domain,
                           priority |-> priority, host |-> host,
                           ttl |-> ttl_num])))
          [] q_type.tag = "SOA" ->
               ThenVal(ReadQname(b, <<>>), LAMBDA b1, m_name:
               ThenVal(ReadQname(b1, <<>>), LAMBDA b2, r_name:
               ThenVal(ReadU32(b2), LAMBDA b3, serial:
               ThenVal(ReadU32(b3), LAMBDA b4, refresh:
               ThenVal(ReadU32(b4), LAMBDA b5, retry:
               ThenVal(ReadU32(b5), LAMBDA b6, expire:
               ThenVal(ReadU32(b6), LAMBDA b7, minimum:
                   Ok(b7, [kind |-> "SOA", domain |-> domain,
                           m_name |-> m_name, r_name |-> r_name,
                           serial |-> serial, refresh |-> refresh,
                           retry |-> retry, expire |-> expire,
                           minimum |-> minimum, ttl |-> ttl_num]))))))))
          [] q_type.tag = "TXT" ->
               ThenVal(GetRange(b, b.pos, data_len), LAMBDA b1, data:
                   Ok(Step(b1, data_len).b,
                      [kind |-> "TXT", domain |-> domain, data |-> data,
                       ttl |-> ttl_num]))
          [] q_type.tag = "OPT" ->
               ThenVal(GetRange(b, b.pos, data_len), LAMBDA b1, data:
                   Ok(Step(b1, data_len).b,
                      [kind |-> "OPT", packet_len |-> class,
                       flags |-> ttl_num, data |-> data]))
          [] q_type.tag = "UNKNOWN" ->
               Ok(Step(b, data_len).b,
                  [kind |-> "UNKNOWN", domain |-> domain, q_type |-> q_type_num,
                   data_len |-> data_len, ttl |-> ttl_num])

\* DNSRecord::read: the name, the type, the class, the TTL and the data
\* length, then the match on the type
RecordRead(b) ==
    ThenVal(ReadQname(b, <<>>), LAMBDA b1, domain:
    ThenVal(ReadU16(b1), LAMBDA b2, q_type_num:
    ThenVal(ReadU16(b2), LAMBDA b3, class:
    ThenVal(ReadU32(b3), LAMBDA b4, ttl_num:
    ThenVal(ReadU16(b4), LAMBDA b5, data_len:
        RecordReadArm(b5, domain, q_type_num, class, ttl_num, data_len))))))

\* the derived PartialEq of DNSRecord: a TransientTTL equals every other
RecordEq(r1, r2) ==
    /\ r1.kind = r2.kind
    /\ IF r1.kind = "OPT" THEN r1 = r2
       ELSE [r1 EXCEPT !.ttl = 0] = [r2 EXCEPT !.ttl = 0]

(***************************************************************************)
(* DNSPacket.                                                              *)
(***************************************************************************)
DNSPacketNew ==
    [header |-> DNSHeaderNew, questions |-> <<>>, answers |-> <<>>,
     authorities |-> <<>>, additional |-> <<>>]

\* a write that trusts the counts the header holds
KeepCounts(self) == self

\* the first four statements of DNSPacket::write
RecomputeCounts(self) ==
    [self EXCEPT !.header.questions = AsU16(Len(self.questions)),
                 !.header.answers = AsU16(Len(self.answers)),
                 !.header.authoritative_entries = AsU16(Len(self.authorities)),
                 !.header.additional_entries = AsU16(Len(self.additional))]

\* for question in &self.questions { question.write(buffer)?; }
RECURSIVE WriteQuestions(_, _)
WriteQuestions(b, questions) ==
    IF questions = <<>> THEN Ok(b, 0)
    ELSE Then(QuestionWrite(Head(questions), b),
              LAMBDA b1: WriteQuestions(b1, Tail(questions)))

\* for record in &self.answers { record.write(buffer)?; }
RECURSIVE WriteRecords(_, _)
WriteRecords(b, records) ==
    IF records = <<>> THEN Ok(b, 0)
    ELSE Then(RecordWrite(Head(records), b),
              LAMBDA b1: WriteRecords(b1, Tail(records)))

\* DNSPacket::write after the counts are set: the header, the questions,
\* the answers, the authorities, the additional records
WriteSections(self, b) ==
    Then(HeaderWrite(self.header, b),
    LAMBDA b1: Then(WriteQuestions(b1, self.questions),
    LAMBDA b2: Then(WriteRecords(b2, self.answers),
    LAMBDA b3: Then(WriteRecords(b3, self.authorities),
    LAMBDA b4: WriteRecords(b4, self.additional)))))

\* a result with another value
WithVal(r, val) == [r EXCEPT !.val = val]

\* DNSPacket::write: val is the packet as the call left it (&mut self)
PacketWrite(self, b) ==
    WithVal(WriteSections(RecomputeCounts(self), b), RecomputeCounts(self))

\* a decoder that reads as many authorities as the header counts answers
NextSectionAnswersTwice(p) ==
    IF Len(p.questions) < p.header.questions THEN "questions"
    ELSE IF Len(p.answers) < p.header.answers THEN "answers"
    ELSE IF Len(p.authorities) < p.header.answers THEN "authorities"
    ELSE IF Len(p.additional) < p.header.additional_entries THEN "additional"
    ELSE "done"

\* the loop DNSPacket::from_buffer is in, given what it has read so far
NextSection(p) ==
    IF Len(p.questions) < p.header.questions THEN "questions"
    ELSE IF Len(p.answers) < p.header.answers THEN "answers"
    ELSE IF Len(p.authorities) < p.header.authoritative_entries THEN "authorities"
    ELSE IF Len(p.additional) < p.header.additional_entries THEN "additional"
    ELSE "done"

\* what a call returned, without the buffer (which is the variable buffer)
Returned(r) == [ok |-> r.ok, err |-> r.err, val |-> r.val]


(***************************************************************************)
(* SpecHeader: a header is written at a start offset of a new buffer, the  *)
(* cursor is moved back to the start, and a header is read there.          *)
(***************************************************************************)
\* id and the four counts of the headers tried
HeaderNumbers ==
    { <<0, 0, 0, 0, 0>>, <<43981, 1, 2, 3, 4>>, <<65535, 65535, 256, 255, 32768>> }

\* opcode is a u8 of which the wire holds four bits: 17 does not fit
Opcodes == {0, 10, 15, 17}

\* the eight flags: none set, all set, exactly one set, all but one set
FlagVectors ==
    { [i \in 1..8 |-> v] : v \in BOOLEAN }
    \cup { [i \in 1..8 |-> IF i = k THEN v ELSE ~v] : k \in 1..8, v \in BOOLEAN }

Headers ==
    { [id |-> n[1],
       recursion_desired |-> f[1], truncated_message |-> f[2],
       authoritative_answer |-> f[3], opcode |-> op, response |-> f[4],
       rescode |-> rc, checking_disabled |-> f[5], authed_data |-> f[6],
       z |-> f[7], recursion_available |-> f[8],
       questions |-> n[2], answers |-> n[3], authoritative_entries |-> n[4],
       additional_entries |-> n[5]] :
      n \in HeaderNumbers, f \in FlagVectors, op \in Opcodes,
      rc \in { ResultCodes[i] : i \in 1..6 } }

\* 500 is the last offset a header fits at
HeaderStarts == {0, 7, 500, 501}

InitHeader ==
    /\ header \in Headers
    /\ start \in HeaderStarts
    /\ buffer = Seek(BufferNew, start).b
    /\ pc = "header"
    /\ result = None
    /\ packet = None /\ dns_packet = None /\ record = None /\ qname = None
    /\ msgLen = 0 /\ qn = None /\ firstPtr = -1 /\ lastAt = -1 /\ origin = None /\ range_len = 0

HeaderWriteCall ==
    /\ pc = "header"
    /\ LET r == HeaderWrite(header, buffer)
       IN  /\ buffer' = r.b
           /\ result' = Returned(r)
    /\ pc' = "header written"
    /\ UNCHANGED <<packet, dns_packet, header, record, qname, start, msgLen, qn, firstPtr, lastAt, origin, range_len>>

HeaderSeekCall ==
    /\ pc = "header written"
    /\ result.ok
    /\ buffer' = Seek(buffer, start).b
    /\ pc' = "header sought"
    /\ UNCHANGED <<packet, dns_packet, result, header, record, qname, start, msgLen, qn, firstPtr, lastAt, origin, range_len>>

HeaderReadCall ==
    /\ pc = "header sought"
    /\ LET r == HeaderRead(DNSHeaderNew, buffer)
       IN  /\ buffer' = r.b
           /\ result' = Returned(r)
    /\ pc' = "header read"
    /\ UNCHANGED <<packet, dns_packet, header, record, qname, start, msgLen, qn, firstPtr, lastAt, origin, range_len>>

NextHeader == HeaderWriteCall \/ HeaderSeekCall \/ HeaderReadCall

SpecHeader == InitHeader /\ [][NextHeader]_vars

\* C3: a header whose opcode fits four bits, written where 12 bytes are left,
\* takes exactly 12 bytes of the buffer (no byte outside them changes) and is
\* read back from the same offset with every field as it was written.
C3_HeaderRoundTrip ==
    /\ (pc = "header written" /\ start + 12 <= BufSize) =>
          /\ result.ok
          /\ buffer.pos = start + 12
          /\ \A i \in 0..(BufSize - 1) :
                (i < start \/ i >= start + 12) => buffer.buf[i + 1] = 0
    /\ (pc = "header read" /\ header.opcode \in 0..15) =>
          /\ result.ok
          /\ result.val = header
          /\ buffer.pos = start + 12

\* the header with every flag set is read back
C3_Witness ==
    /\ pc = "header read"
    /\ result.ok
    /\ result.val = header
    /\ header.id = 43981 /\ header.opcode = 15 /\ header.rescode = "REFUSED"
    /\ header.response /\ header.authoritative_answer /\ header.truncated_message
    /\ header.recursion_desired /\ header.recursion_available /\ header.z
    /\ header.checking_disabled /\ header.authed_data
    /\ header.questions = 1 /\ header.additional_entries = 4

(***************************************************************************)
(* The names, records and questions the specifications draw from.  A name  *)
(* is spelled in bytes: 97 'a', 98 'b', 65 'A', 46 '.'.                    *)
(***************************************************************************)
Repeat(c, n) == [i \in 1..n |-> c]

\* "", "a", "a.b", "A.b", "ab." (a trailing dot), a label of 63 bytes and
\* one of 64
Names ==
    { <<>>, <<97>>, <<97, 46, 98>>, <<65, 46, 98>>, <<97, 98, 46>>,
      Repeat(97, 63), <<98, 46>> \o Repeat(97, 64) }

ShortNames == { <<>>, <<97>>, <<97, 46, 98>>, <<97, 98, 46>> }

\* 0, 300 and u32::MAX
Ttls == { U32(0), U32(300), <<65535, 65535>> }

Records ==
    { [kind |-> "A", domain |-> d, addr |-> a, ttl |-> t] :
        d \in Names, a \in { <<1, 2, 3, 4>>, <<255, 0, 0, 16>> }, t \in Ttls }
    \cup
    { [kind |-> "AAAA", domain |-> d, addr |-> a, ttl |-> t] :
        d \in Names,
        a \in { <<0, 0, 0, 0, 0, 0, 0, 1>>, <<65535, 1, 2, 3, 4, 5, 6, 258>> },
        t \in Ttls }
    \cup
    { [kind |-> k, domain |-> d, host |-> h, ttl |-> U32(300)] :
        k \in {"NS", "CNAME"}, d \in Names, h \in Names }
    \cup
    { [kind |-> "MX", domain |-> d, priority |-> p, host |-> h, ttl |-> U32(300)] :
        d \in ShortNames, p \in {0, 10, 65535}, h \in Names }
    \cup
    { [kind |-> "SRV", domain |-> d, priority |-> p, weight |-> 257, port |-> 53,
       host |-> h, ttl |-> U32(300)] :
        d \in ShortNames, p \in {0, 65535}, h \in Names }
    \cup
    { [kind |-> "SOA", domain |-> d, m_name |-> m, r_name |-> r, serial |-> s,
       refresh |-> U32(7200), retry |-> U32(0), expire |-> <<65535, 65535>>,
       minimum |-> U32(1), ttl |-> U32(300)] :
        d \in ShortNames, m \in ShortNames, r \in Names, s \in { U32(0), U32(2024010101) } }
    \cup
    { [kind |-> "TXT", domain |-> d, data |-> x, ttl |-> U32(300)] :
        d \in ShortNames, x \in { <<>>, <<104, 105>>, Repeat(120, 300) } }
    \cup
    { [kind |-> "OPT", packet_len |-> 4096, flags |-> U32(32768), data |-> <<>>] }
    \cup
    { [kind |-> "UNKNOWN", domain |-> d, q_type |-> 99, data_len |-> 3, ttl |-> U32(300)] :
        d \in ShortNames }

(***************************************************************************)
(* SpecRecord: one record is written at a start offset of a new buffer,    *)
(* the cursor is moved back to the start, and a record is read there.      *)
(***************************************************************************)
\* 12 is where the first entry of a packet starts; from 440 on the long
\* records, from 490 on most records do not fit
RecordStarts == {0, 12, 440, 490}

InitRecord ==
    /\ record \in Records
    /\ start \in RecordStarts
    /\ buffer = Seek(BufferNew, start).b
    /\ pc = "record"
    /\ result = None
    /\ packet = None /\ dns_packet = None /\ header = None /\ qname = None
    /\ msgLen = 0 /\ qn = None /\ firstPtr = -1 /\ lastAt = -1 /\ origin = None /\ range_len = 0

RecordWriteCall ==
    /\ pc = "record"
    /\ LET r == RecordWrite(record, buffer)
       IN  /\ buffer' = r.b
           /\ result' = Returned(r)
    /\ pc' = "record written"
    /\ UNCHANGED <<packet, dns_packet, header, record, qname, start, msgLen, qn, firstPtr, lastAt, origin, range_len>>

RecordSeekCall ==
    /\ pc = "record written"
    /\ result.ok
    /\ msgLen' = buffer.pos
    /\ buffer' = Seek(buffer, start).b
    /\ pc' = "record sought"
    /\ UNCHANGED <<packet, dns_packet, result, header, record, qname, start, qn, firstPtr, lastAt, origin, range_len>>

RecordReadCall ==
    /\ pc = "record sought"
    /\ LET r == RecordRead(buffer)
       IN  /\ buffer' = r.b
           /\ result' = Returned(r)
    /\ pc' = "record read"
    /\ UNCHANGED <<packet, dns_packet, header, record, qname, start, msgLen, qn, firstPtr, lastAt, origin, range_len>>

NextRecord == RecordWriteCall \/ RecordSeekCall \/ RecordReadCall

SpecRecord == InitRecord /\ [][NextRecord]_vars

\* the bytes write_qname takes for a name: a length byte and the bytes of
\* each label
RECURSIVE LabelBytes(_)
LabelBytes(labels) ==
    IF labels = <<>> THEN 0 ELSE 1 + Len(Head(labels)) + LabelBytes(Tail(labels))

EncodedNameLen(name) == LabelBytes(Split(name))

\* the big-endian u16 at an offset of the buffer
U16At(b, pos) == b.buf[pos + 1] * 256 + b.buf[pos + 2]

\* the payload length of the fixed-size records
FixedDataLength(kind) == IF kind = "A" THEN 4 ELSE 16

\* C4: an A or AAAA record is written as name, type (2), class (2), TTL (4),
\* a 2-byte data length of 4 or 16, and that many payload bytes; the count
\* returned is the name's length + 10 + the data length.
C4_FixedSizeLayout ==
    (pc = "record written" /\ result.ok /\ record.kind \in {"A", "AAAA"}) =>
        LET n == EncodedNameLen(record.domain)
            rdlength == FixedDataLength(record.kind)
        IN  /\ U16At(buffer, start + n + 8) = rdlength
            /\ result.val = n + 10 + rdlength
            /\ buffer.pos = start + n + 10 + rdlength

\* the payload bytes of a record whose data length is patched
PayloadLen(r) ==
    CASE r.kind \in {"NS", "CNAME"} -> EncodedNameLen(r.host)
      [] r.kind = "MX" -> 2 + EncodedNameLen(r.host)
      [] r.kind = "SRV" -> 6 + EncodedNameLen(r.host)
      [] r.kind = "SOA" -> EncodedNameLen(r.m_name) + EncodedNameLen(r.r_name) + 20

\* C8: after a NS, CNAME, MX, SRV or SOA record is written, the u16 right
\* after the TTL is not 0 and is the number of bytes written after it, which
\* is the size of the record's payload.
C8_LengthPatched ==
    (pc = "record written" /\ result.ok
        /\ record.kind \in {"NS", "CNAME", "MX", "SRV", "SOA"}) =>
        LET lenpos == start + EncodedNameLen(record.domain) + 8
            rdlength == U16At(buffer, lenpos)
        IN  /\ rdlength # 0
            /\ rdlength = buffer.pos - (lenpos + 2)
            /\ rdlength = PayloadLen(record)
            /\ result.val = buffer.pos - start

\* a NS record with the host "a.b" is written with the data length 4
C8_Witness ==
    /\ pc = "record written"
    /\ result.ok
    /\ record.kind = "NS"
    /\ record.host = <<97, 46, 98>>
    /\ U16At(buffer, start + EncodedNameLen(record.domain) + 8) = 4

(***************************************************************************)
(* SpecQname: either a name is written at a start offset of a new buffer   *)
(* (write_qname), or a name is read, one iteration of the loop of          *)
(* read_qname at a time, from a buffer that holds an encoded name.         *)
(***************************************************************************)
\* the names written: those of Names, a label of 64 bytes alone, three
\* labels of 63 bytes, "a..b" (an empty label inside), 62 bytes
QnamesWritten ==
    Names \cup
    { Repeat(97, 64),
      Repeat(97, 63) \o <<46>> \o Repeat(98, 63) \o <<46>> \o Repeat(97, 63),
      <<97, 46, 46, 98>>,
      Repeat(97, 62),
      Repeat(97, 64) \o <<46, 98>> }

\* a label of 63 bytes takes 64 bytes: it fits at 448 and not at 449
QnameStarts == {0, 12, 448, 449, 511, 512}

\* the two bytes of a compression pointer to an offset
Pointer(offset) == <<192 + (offset \div 256), offset % 256>>

\* Encoded names: image is written at base, and the name is read at base + at.
\* [1]a[0] is the name "a"; the pointers are to offsets of the same image.
NameImages(base) ==
    { \* "a"
      [image |-> <<1, 97, 0>>, at |-> 0],
      \* "www.ab"
      [image |-> <<3, 87, 119, 119, 2, 97, 98, 0>>, at |-> 0],
      \* the root name
      [image |-> <<0>>, at |-> 0],
      \* "a", then a pointer to it
      [image |-> <<1, 97, 0>> \o Pointer(base), at |-> 3],
      \* "a", then the label "b" and a pointer to "a"
      [image |-> <<1, 97, 0, 1, 98>> \o Pointer(base), at |-> 3],
      \* "a", a pointer to it, a pointer to that pointer
      [image |-> <<1, 97, 0>> \o Pointer(base) \o Pointer(base + 3), at |-> 5],
      \* "a", "b" + pointer to "a", "A" + pointer to "b": two pointers followed
      [image |-> <<1, 97, 0, 1, 98>> \o Pointer(base) \o <<1, 65>> \o Pointer(base + 3),
       at |-> 7],
      \* a pointer to the zero byte after the image
      [image |-> Pointer(base + 2), at |-> 0],
      \* a pointer to itself
      [image |-> Pointer(base), at |-> 0],
      \* two pointers, each to the other
      [image |-> Pointer(base + 2) \o Pointer(base), at |-> 0],
      \* the label "a" and a pointer back to it
      [image |-> <<1, 97>> \o Pointer(base), at |-> 0],
      \* a pointer past the end of the buffer
      [image |-> Pointer(1023), at |-> 0],
      \* a label longer than what is left of the image: zero bytes are read
      [image |-> <<2, 97>>, at |-> 0] }

\* 509 leaves three bytes of the buffer: names and pointers there meet its end
ImageBases == {0, 12, 300, 509}

InitQname ==
    /\ result = None
    /\ qn = None /\ firstPtr = -1 /\ lastAt = -1 /\ origin = None /\ range_len = 0
    /\ packet = None /\ dns_packet = None /\ header = None /\ record = None
    /\ \/ /\ pc = "write qname"
          /\ qname \in QnamesWritten
          /\ start \in QnameStarts
          /\ msgLen = 0
          /\ buffer = Seek(BufferNew, start).b
       \/ \E base \in ImageBases : \E c \in NameImages(base) :
            /\ pc = "read qname"
            /\ qname = <<>>
            /\ start = base + c.at
            /\ msgLen = base + Len(c.image)
            /\ buffer = Seek(WriteBytes(Seek(BufferNew, base).b, c.image).b,
                             base + c.at).b

WriteQnameCall ==
    /\ pc = "write qname"
    /\ LET r == WriteQname(buffer, qname)
       IN  /\ buffer' = r.b
           /\ result' = Returned(r)
    /\ pc' = "qname written"
    /\ UNCHANGED <<packet, dns_packet, header, record, qname, start, msgLen, qn, firstPtr, lastAt, origin, range_len>>

\* read_qname is entered with an empty outstr
ReadQnameCall ==
    /\ pc = "read qname"
    /\ qn' = ReadQnameEnter(buffer, <<>>)
    /\ pc' = "qname loop"
    /\ UNCHANGED <<buffer, packet, dns_packet, result, header, record, qname, start, msgLen, firstPtr, lastAt, origin, range_len>>

\* an iteration that follows one pointer only: a pointer met after a jump
\* ends the read with an error
ReadQnameStepOneHop ==
    /\ pc = "qname loop"
    /\ qn.ctl = "loop"
    /\ Len(qn.outstr) <= MaxOut
    /\ LET n == ReadQnameIter(buffer, qn)
       IN  IF qn.jumped /\ qn.pos < BufSize /\ buffer.buf[qn.pos + 1] >= 192
           THEN /\ buffer' = buffer
                /\ qn' = [qn EXCEPT !.ctl = "err", !.err = EndOfBuffer]
           ELSE /\ buffer' = n.b
                /\ qn' = n.st
    /\ lastAt' = qn.pos
    /\ firstPtr' = IF firstPtr = -1 /\ qn.pos < BufSize /\ buffer.buf[qn.pos + 1] >= 192
                   THEN qn.pos ELSE firstPtr
    /\ UNCHANGED <<pc, packet, dns_packet, result, header, record, qname, start, msgLen, origin, range_len>>

\* One iteration of the loop.  lastAt is the offset whose length byte the
\* iteration looked at, firstPtr the first such offset that held a pointer.
ReadQnameStep ==
    /\ pc = "qname loop"
    /\ qn.ctl = "loop"
    /\ Len(qn.outstr) <= MaxOut
    /\ LET n == ReadQnameIter(buffer, qn)
       IN  /\ buffer' = n.b
           /\ qn' = n.st
    /\ lastAt' = qn.pos
    /\ firstPtr' = IF firstPtr = -1 /\ qn.pos < BufSize /\ buffer.buf[qn.pos + 1] >= 192
                   THEN qn.pos ELSE firstPtr
    /\ UNCHANGED <<pc, packet, dns_packet, result, header, record, qname, start, msgLen, origin, range_len>>

\* the loop was left by its break: read_qname returns Ok
ReadQnameReturn ==
    /\ pc = "qname loop"
    /\ qn.ctl = "break"
    /\ buffer' = ReadQnameExit(buffer, qn)
    /\ result' = [ok |-> TRUE, err |-> "", val |-> qn.outstr]
    /\ pc' = "qname read"
    /\ UNCHANGED <<packet, dns_packet, header, record, qname, start, msgLen, qn, firstPtr, lastAt, origin, range_len>>

\* a get or get_range of the loop failed: read_qname returns the error
ReadQnameFail ==
    /\ pc = "qname loop"
    /\ qn.ctl = "err"
    /\ result' = [ok |-> FALSE, err |-> qn.err, val |-> qn.outstr]
    /\ pc' = "qname read"
    /\ UNCHANGED <<buffer, packet, dns_packet, header, record, qname, start, msgLen, qn, firstPtr, lastAt, origin, range_len>>

NextQname ==
    \/ WriteQnameCall
    \/ ReadQnameCall
    \/ ReadQnameStep
    \/ ReadQnameReturn
    \/ ReadQnameFail

SpecQname == InitQname /\ [][NextQname]_vars

HasLongLabel(name) ==
    \E i \in 1..Len(Split(name)) : Len(Split(name)[i]) > 63

\* C6: write_qname fails, with an error of kind InvalidInput, for every name
\* with a label of more than 63 bytes, and succeeds for every name without
\* one that the buffer has room for from the cursor on.
C6_LabelLimit ==
    pc = "qname written" =>
        /\ HasLongLabel(qname) =>
              (~result.ok /\ ErrorKind(result.err) = "InvalidInput")
        /\ (~HasLongLabel(qname) /\ start + EncodedNameLen(qname) <= BufSize) =>
              (result.ok /\ buffer.pos = start + EncodedNameLen(qname))

\* a label of exactly 63 bytes is written up to the last byte of the buffer
C6_Witness ==
    /\ pc = "qname written"
    /\ qname = Repeat(97, 63)
    /\ result.ok
    /\ buffer.pos = BufSize

\* C10: from the iteration that meets the first pointer on, the cursor stays
\* two bytes past that pointer, whatever is followed afterwards; a read that
\* met no pointer and succeeded leaves the cursor one past the zero byte that
\* ended the name.
C10_CursorAfterReadQname ==
    /\ (pc \in {"qname loop", "qname read"} /\ firstPtr # -1) =>
          buffer.pos = firstPtr + 2
    /\ (pc = "qname read" /\ result.ok /\ firstPtr = -1) =>
          /\ buffer.buf[lastAt + 1] = 0
          /\ buffer.pos = lastAt + 1

\* a name read through two pointers, the second met at a pointer target:
\* the cursor is two past the first
C10_Witness ==
    /\ pc = "qname read"
    /\ result.ok
    /\ result.val = <<97, 46, 98, 46, 97>>
    /\ firstPtr = start + 2
    /\ lastAt < firstPtr
    /\ buffer.pos = firstPtr + 2

(***************************************************************************)
(* Messages as they arrive from the wire (RFC 1035): what the decoder is   *)
(* given to read.  These build the inputs; they are not the encoder.       *)
(***************************************************************************)
WireU16(n) == <<n \div 256, n % 256>>

WireU32(v) == WireU16(v[1]) \o WireU16(v[2])

RECURSIVE WireLabels(_)
WireLabels(labels) ==
    IF labels = <<>> THEN <<>>
    ELSE <<Len(Head(labels))>> \o Head(labels) \o WireLabels(Tail(labels))

\* a name in full: its labels and the zero byte that ends it
WireName(name) == IF name = <<>> THEN <<0>> ELSE WireLabels(Split(name)) \o <<0>>

WireHeader(h) ==
    WireU16(h.id)
    \o << AsU8(h.recursion_desired) + 2 * AsU8(h.truncated_message)
          + 4 * AsU8(h.authoritative_answer) + 8 * h.opcode + 128 * AsU8(h.response),
          ResultCodeAsU8(h.rescode) + 16 * AsU8(h.checking_disabled)
          + 32 * AsU8(h.authed_data) + 64 * AsU8(h.z)
          + 128 * AsU8(h.recursion_available) >>
    \o WireU16(h.questions) \o WireU16(h.answers)
    \o WireU16(h.authoritative_entries) \o WireU16(h.additional_entries)

WireQuestion(name, type) == name \o WireU16(type) \o WireU16(1)

WireRecord(name, type, class, ttl, rdata) ==
    name \o WireU16(type) \o WireU16(class) \o WireU32(ttl)
    \o WireU16(Len(rdata)) \o rdata

HeaderWith(id, qd, an, ns, ar) ==
    [DNSHeaderNew EXCEPT !.id = id, !.questions = qd, !.answers = an,
                         !.authoritative_entries = ns, !.additional_entries = ar]

\* "www.example.com", "a.b", "b", "c.a.b"
NameWww == <<119, 119, 119, 46, 101, 120, 97, 109, 112, 108, 101, 46, 99, 111, 109>>

NameAB == <<97, 46, 98>>

NameB == <<98>>

NameCAB == <<99, 46, 97, 46, 98>>

\* a query for www.example.com, byte by byte
WireQuery ==
    [wire |-> <<0, 1, 1, 0, 0, 1, 0, 0, 0, 0, 0, 0,
                3, 119, 119, 119, 7, 101, 120, 97, 109, 112, 108, 101,
                3, 99, 111, 109, 0, 0, 1, 0, 1>>,
     expect |-> [DNSPacketNew EXCEPT
                    !.header = [HeaderWith(1, 1, 0, 0, 0) EXCEPT !.recursion_desired = TRUE],
                    !.questions = <<DNSQuestionNew(NameWww, QT("A"))>>]]

\* A response with its names compressed: the question "a.b" is at offset 12
\* and "b" at 14; two answers, one authority, one additional record.
WireResponse ==
    [wire |->
        WireHeader([HeaderWith(43981, 1, 2, 1, 1) EXCEPT
                       !.response = TRUE, !.recursion_available = TRUE,
                       !.rescode = "NXDOMAIN"])
        \o WireQuestion(WireName(NameAB), 1)
        \o WireRecord(Pointer(12), 1, 1, U32(300), <<1, 2, 3, 4>>)
        \o WireRecord(Pointer(12), 5, 1, U32(60), <<1, 99>> \o Pointer(12))
        \o WireRecord(Pointer(14), 2, 1, <<65535, 65535>>, WireName(<<97>>))
        \o WireRecord(WireName(<<65, 46, 98>>), 28, 1, U32(0),
                      <<0, 0, 0, 0, 0, 0, 0, 0, 0, 0, 0, 0, 0, 0, 1, 2>>),
     expect |-> [DNSPacketNew EXCEPT
        !.header = [HeaderWith(43981, 1, 2, 1, 1) EXCEPT
                       !.response = TRUE, !.recursion_available = TRUE,
                       !.rescode = "NXDOMAIN"],
        !.questions = <<DNSQuestionNew(NameAB, QT("A"))>>,
        !.answers = << [kind |-> "A", domain |-> NameAB, addr |-> <<1, 2, 3, 4>>,
                        ttl |-> U32(300)],
                       [kind |-> "CNAME", domain |-> NameAB, host |-> NameCAB,
                        ttl |-> U32(60)] >>,
        !.authorities = << [kind |-> "NS", domain |-> NameB, host |-> <<97>>,
                            ttl |-> <<65535, 65535>>] >>,
        !.additional = << [kind |-> "AAAA", domain |-> NameAB,
                           addr |-> <<0, 0, 0, 0, 0, 0, 0, 258>>, ttl |-> U32(0)] >>]]

\* a response with the other record types: no question, MX and SRV answers,
\* a SOA authority, and a TXT, an OPT and a record of type 99 as additional
WireResponseOther ==
    [wire |->
        WireHeader(HeaderWith(7, 0, 2, 1, 3))
        \o WireRecord(WireName(NameAB), 15, 1, U32(300),
                      WireU16(10) \o WireName(NameB))
        \o WireRecord(Pointer(12), 33, 1, U32(300),
                      WireU16(1) \o WireU16(2) \o WireU16(53) \o Pointer(12))
        \o WireRecord(Pointer(14), 6, 1, U32(300),
                      Pointer(12) \o WireName(NameB) \o WireU32(U32(2024010101))
                      \o WireU32(U32(7200)) \o WireU32(U32(0))
                      \o WireU32(<<65535, 65535>>) \o WireU32(U32(1)))
        \o WireRecord(Pointer(14), 16, 1, U32(300), <<104, 105>>)
        \o WireRecord(<<0>>, 44, 4096, U32(32768), <<>>)
        \o WireRecord(Pointer(12), 99, 1, U32(300), <<1, 2, 3>>),
     expect |-> [DNSPacketNew EXCEPT
        !.header = HeaderWith(7, 0, 2, 1, 3),
        !.answers = << [kind |-> "MX", domain |-> NameAB, priority |-> 10,
                        host |-> NameB, ttl |-> U32(300)],
                       [kind |-> "SRV", domain |-> NameAB, priority |-> 1,
                        weight |-> 2, port |-> 53, host |-> NameAB,
                        ttl |-> U32(300)] >>,
        !.authorities = << [kind |-> "SOA", domain |-> NameB, m_name |-> NameAB,
                            r_name |-> NameB, serial |-> U32(2024010101),
                            refresh |-> U32(7200), retry |-> U32(0),
                            expire |-> <<65535, 65535>>, minimum |-> U32(1),
                            ttl |-> U32(300)] >>,
        !.additional = << [kind |-> "TXT", domain |-> NameB, data |-> <<104, 105>>,
                           ttl |-> U32(300)],
                          [kind |-> "OPT", packet_len |-> 4096, flags |-> U32(32768),
                           data |-> <<>>],
                          [kind |-> "UNKNOWN", domain |-> NameAB, q_type |-> 99,
                           data_len |-> 3, ttl |-> U32(300)] >>]]

WellFormed == { WireQuery, WireResponse, WireResponseOther }

\* Two questions for one name, the second name a pointer to the first (at
\* offset 12): the names and the types of the second question tried.
CompressedNames == { <<97>>, NameAB, <<65, 46, 98>>, NameWww }

CompressedTypes == {1, 15, 28, 999}

WireCompressed(name, type) ==
    WireHeader(HeaderWith(2, 2, 0, 0, 0))
    \o WireQuestion(WireName(name), 1)
    \o WireQuestion(Pointer(12), type)

\* where the pointer of the second question is
PointerAt(name) == 12 + Len(WireName(name)) + 4

\* Messages that are cut short or wrong: five bytes of a header; nothing; a
\* header that counts a question and an answer that do not follow; a header
\* that counts 65535 answers; a second question whose name is a pointer past
\* the buffer; a TXT answer longer than the buffer; an answer of type 99
\* that claims 60000 bytes, and a second answer counted after it.
Malformed ==
    { <<0, 1, 1, 0, 0>>,
      <<>>,
      WireHeader(HeaderWith(3, 1, 1, 0, 0)),
      WireHeader(HeaderWith(4, 0, 65535, 0, 0)),
      WireHeader(HeaderWith(5, 2, 0, 0, 0))
          \o WireQuestion(WireName(NameAB), 1) \o WireQuestion(Pointer(1023), 1),
      WireHeader(HeaderWith(6, 0, 1, 0, 0))
          \o WireName(NameAB) \o WireU16(16) \o WireU16(1) \o WireU32(U32(300))
          \o WireU16(600),
      WireHeader(HeaderWith(8, 0, 2, 0, 0))
          \o WireName(NameAB) \o WireU16(99) \o WireU16(1) \o WireU32(U32(300))
          \o WireU16(60000) }

(***************************************************************************)
(* The packets DNSPacket::write is given.                                  *)
(***************************************************************************)
\* most questions, and most answers, of a packet written
MaxSection == 2

Take(s, n) == SubSeq(s, 1, n)

Rotate(s, r) == [i \in 1..Len(s) |-> s[((i - 1 + r) % Len(s)) + 1]]

QuestionList ==
    << DNSQuestionNew(<<>>, QT("NS")),
       DNSQuestionNew(NameAB, QT("A")),
       DNSQuestionNew(<<65, 46, 98>>, UnknownQT(99)),
       DNSQuestionNew(<<97, 98, 46>>, QT("MX")) >>

RecordList ==
    << [kind |-> "NS", domain |-> <<>>, host |-> <<>>, ttl |-> U32(300)],
       [kind |-> "A", domain |-> <<>>, addr |-> <<1, 2, 3, 4>>, ttl |-> U32(300)],
       [kind |-> "A", domain |-> NameAB, addr |-> <<1, 2, 3, 4>>, ttl |-> U32(300)],
       [kind |-> "AAAA", domain |-> <<>>, addr |-> <<0, 0, 0, 0, 0, 0, 0, 1>>,
        ttl |-> U32(300)],
       [kind |-> "MX", domain |-> <<97, 98, 46>>, priority |-> 10, host |-> NameB,
        ttl |-> U32(300)],
       [kind |-> "TXT", domain |-> <<>>, data |-> <<104, 105>>, ttl |-> U32(300)],
       [kind |-> "OPT", packet_len |-> 4096, flags |-> U32(32768), data |-> <<>>],
       [kind |-> "UNKNOWN", domain |-> NameB, q_type |-> 99, data_len |-> 3,
        ttl |-> U32(300)],
       [kind |-> "CNAME", domain |-> Repeat(97, 64), host |-> NameB, ttl |-> U32(300)] >>

\* the headers of the packets written: the counts stored are not those of
\* the sections
StoredHeaders ==
    { [HeaderWith(1, 0, 0, 0, 0) EXCEPT !.recursion_desired = TRUE],
      [HeaderWith(43981, 7, 65535, 1, 300) EXCEPT !.response = TRUE,
                                                  !.rescode = "REFUSED"] }

Packets ==
    { [header |-> h,
       questions |-> Take(Rotate(QuestionList, r), kq),
       answers |-> Take(Rotate(RecordList, r), ka),
       authorities |-> Take(Rotate(RecordList, r + 2), kn),
       additional |-> Take(Rotate(RecordList, r + 5), kr)] :
      h \in StoredHeaders, r \in 0..(Len(RecordList) - 1),
      kq \in 0..MaxSection, ka \in 0..MaxSection, kn \in 0..1, kr \in 0..1 }

(***************************************************************************)
(* Spec: a packet is written to a new buffer and the cursor moved back to  *)
(* 0, or a message from the wire is in a new buffer with the cursor at 0;  *)
(* then DNSPacket::from_buffer reads the buffer, one entry at a time.      *)
(* origin tells where the bytes come from, msgLen how many they are, and   *)
(* header keeps the header the packet written had before the call.         *)
(***************************************************************************)
Received(wire) == Seek(WriteBytes(BufferNew, wire).b, 0).b

Init ==
    /\ result = [ok |-> TRUE, err |-> "", val |-> <<>>]
    /\ dns_packet = DNSPacketNew
    /\ record = None /\ qn = None /\ firstPtr = -1 /\ lastAt = -1 /\ range_len = 0
    /\ \/ /\ origin = "packet"
          /\ packet \in Packets
          /\ header = packet.header
          /\ buffer = BufferNew
          /\ msgLen = 0 /\ qname = <<>> /\ start = 0
          /\ pc = "packet"
       \/ \E c \in WellFormed :
            /\ origin = "wire"
            /\ packet = c.expect
            /\ header = c.expect.header
            /\ buffer = Received(c.wire)
            /\ msgLen = Len(c.wire) /\ qname = <<>> /\ start = 0
            /\ pc = "ready"
       \/ \E name \in CompressedNames : \E type \in CompressedTypes :
            /\ origin = "compressed"
            /\ packet = DNSPacketNew
            /\ header = HeaderWith(2, 2, 0, 0, 0)
            /\ buffer = Received(WireCompressed(name, type))
            /\ msgLen = Len(WireCompressed(name, type))
            /\ qname = name /\ start = PointerAt(name)
            /\ pc = "ready"
       \/ \E wire \in Malformed :
            /\ origin = "malformed"
            /\ packet = DNSPacketNew
            /\ header = DNSHeaderNew
            /\ buffer = Received(wire)
            /\ msgLen = Len(wire) /\ qname = <<>> /\ start = 0
            /\ pc = "ready"

\* the variables no call changes
Given == <<packet, header, record, qname, start, msgLen, qn, firstPtr, lastAt, origin, range_len>>

\* packet.write(&mut buffer) has returned r
PacketWritten(r) ==
    /\ buffer' = r.b
    /\ packet' = r.val
    /\ result' = [ok |-> r.ok, err |-> r.err, val |-> <<>>]
    /\ msgLen' = r.b.pos

PacketWriteCall ==
    /\ pc = "packet"
    /\ PacketWritten(PacketWrite(packet, buffer))
    /\ pc' = "written"
    /\ UNCHANGED <<dns_packet, header, record, qname, start, qn, firstPtr, lastAt, origin, range_len>>

PacketSeekCall ==
    /\ pc = "written"
    /\ result.ok
    /\ buffer' = Seek(buffer, 0).b
    /\ pc' = "ready"
    /\ UNCHANGED <<packet, dns_packet, result, header, record, qname, start, msgLen, qn, firstPtr, lastAt, origin, range_len>>

\* A read of from_buffer has returned r.  Ok: the entry read is kept in its
\* section (the header replaces that of the new packet).  Err: from_buffer
\* returns the error, and the packet it was filling is dropped.
FromBufferRead(r, section) ==
    IF r.ok
    THEN /\ buffer' = r.b
         /\ dns_packet' = IF section = "header"
                          THEN [dns_packet EXCEPT !.header = r.val]
                          ELSE [dns_packet EXCEPT ![section] = Append(@, r.val)]
         /\ pc' = "from_buffer"
         /\ UNCHANGED result
    ELSE /\ buffer' = r.b
         /\ result' = [ok |-> FALSE, err |-> r.err, val |-> <<>>]
         /\ pc' = "returned"
         /\ UNCHANGED dns_packet

\* DNSPacket::new() and dns_packet.header.read(buffer)?
FromBufferHeader ==
    /\ pc = "ready"
    /\ FromBufferRead(HeaderRead(dns_packet.header, buffer), "header")
    /\ UNCHANGED Given

\* one iteration of the loop over 0..header.questions
FromBufferQuestion ==
    /\ pc = "from_buffer"
    /\ NextSection(dns_packet) = "questions"
    /\ FromBufferRead(QuestionRead(DNSQuestionNew(<<>>, UnknownQT(0)), buffer),
                      "questions")
    /\ UNCHANGED Given

\* one iteration of the loop over 0..header.answers
FromBufferAnswer ==
    /\ pc = "from_buffer"
    /\ NextSection(dns_packet) = "answers"
    /\ FromBufferRead(RecordRead(buffer), "answers")
    /\ UNCHANGED Given

\* one iteration of the loop over 0..header.authoritative_entries
FromBufferAuthority ==
    /\ pc = "from_buffer"
    /\ NextSection(dns_packet) = "authorities"
    /\ FromBufferRead(RecordRead(buffer), "authorities")
    /\ UNCHANGED Given

\* one iteration of the loop over 0..header.additional_entries
FromBufferAdditional ==
    /\ pc = "from_buffer"
    /\ NextSection(dns_packet) = "additional"
    /\ FromBufferRead(RecordRead(buffer), "additional")
    /\ UNCHANGED Given

\* Ok(dns_packet)
FromBufferReturn ==
    /\ pc = "from_buffer"
    /\ NextSection(dns_packet) = "done"
    /\ result' = [ok |-> TRUE, err |-> "", val |-> <<dns_packet>>]
    /\ pc' = "returned"
    /\ UNCHANGED <<buffer, packet, dns_packet, header, record, qname, start, msgLen, qn, firstPtr, lastAt, origin, range_len>>

Next ==
    \/ PacketWriteCall
    \/ PacketSeekCall
    \/ FromBufferHeader
    \/ FromBufferQuestion
    \/ FromBufferAnswer
    \/ FromBufferAuthority
    \/ FromBufferAdditional
    \/ FromBufferReturn

Spec == Init /\ [][Next]_vars

\* the record types DNSRecord::write serialises
Supported(p) ==
    LET records == p.answers \o p.authorities \o p.additional
    IN  \A i \in 1..Len(records) :
            records[i].kind \in {"A", "AAAA", "NS", "CNAME", "MX", "SRV", "SOA", "TXT"}

\* two sections hold equal records in the same order, TTL values apart
RecordsEq(s1, s2) ==
    /\ Len(s1) = Len(s2)
    /\ \A i \in 1..Len(s1) : RecordEq(s1[i], s2[i])

PacketEq(p1, p2) ==
    /\ p1.header = p2.header
    /\ p1.questions = p2.questions
    /\ RecordsEq(p1.answers, p2.answers)
    /\ RecordsEq(p1.authorities, p2.authorities)
    /\ RecordsEq(p1.additional, p2.additional)

\* C1: a packet with records of the serialised types only, written to a new
\* buffer without error, is read back by from_buffer, after seek(0), as a
\* packet equal to the one written, TTL values apart.
C1_RoundTrip ==
    (origin = "packet" /\ pc = "returned" /\ Supported(packet)) =>
        /\ result.ok
        /\ PacketEq(result.val[1], packet)

\* C2: after DNSPacket::write, whatever counts the header held before, its
\* four counts and the four u16 at bytes 4..11 of the buffer are the lengths
\* of the questions, answers, authorities and additional sections.
C2_CountsRecomputed ==
    (origin = "packet" /\ pc # "packet") =>
        /\ packet.header.questions = Len(packet.questions)
        /\ packet.header.answers = Len(packet.answers)
        /\ packet.header.authoritative_entries = Len(packet.authorities)
        /\ packet.header.additional_entries = Len(packet.additional)
        /\ U16At(buffer, 4) = Len(packet.questions)
        /\ U16At(buffer, 6) = Len(packet.answers)
        /\ U16At(buffer, 8) = Len(packet.authorities)
        /\ U16At(buffer, 10) = Len(packet.additional)

\* a packet whose header held the counts 7, 65535, 1, 300 is written with
\* two questions, one answer, no authority and one additional record
C2_Witness ==
    /\ origin = "packet"
    /\ pc = "written"
    /\ result.ok
    /\ header.questions = 7 /\ header.answers = 65535
    /\ header.authoritative_entries = 1 /\ header.additional_entries = 300
    /\ Len(packet.questions) = 2 /\ Len(packet.answers) = 1
    /\ Len(packet.authorities) = 0 /\ Len(packet.additional) = 1
    /\ U16At(buffer, 4) = 2 /\ U16At(buffer, 6) = 1
    /\ U16At(buffer, 8) = 0 /\ U16At(buffer, 10) = 1

\* C5: from_buffer fails with the end-of-buffer error on a buffer that holds
\* fewer than 12 bytes of message data.
C5_ShortHeaderRefused ==
    (msgLen < 12 /\ pc = "returned") =>
        (~result.ok /\ result.err = EndOfBuffer)

\* C7: of two questions for one name, the second name a pointer to the
\* first, from_buffer reads both with the same name, the name of the
\* message, and reads the type of the second from the two bytes after the
\* pointer and its class from the two bytes after those.
C7_NameCompression ==
    (origin = "compressed" /\ pc = "returned") =>
        /\ result.ok
        /\ Len(result.val[1].questions) = 2
        /\ result.val[1].questions[1].name = result.val[1].questions[2].name
        /\ result.val[1].questions[2].name = ToLowercase(qname)
        /\ ToNum(result.val[1].questions[2].q_type) = U16At(buffer, start + 2)
        /\ buffer.pos = start + 6

\* "www.example.com" twice, the second time as a pointer and with type MX
C7_Witness ==
    /\ origin = "compressed"
    /\ pc = "returned"
    /\ result.ok
    /\ qname = NameWww
    /\ start = 33
    /\ result.val[1].questions[1].name = NameWww
    /\ result.val[1].questions[2] = DNSQuestionNew(NameWww, QT("MX"))

\* C9: a packet from_buffer returns holds as many questions, answers,
\* authorities and additional records as its header counts; the sections are
\* read in that order, each complete before the next is begun, so that a
\* message from the wire is read as the packet it encodes; and when a read
\* fails, from_buffer returns the error and no packet.
C9_DecodeFollowsCounts ==
    /\ (pc = "returned" /\ result.ok) =>
          /\ Len(result.val) = 1
          /\ Len(result.val[1].questions) = result.val[1].header.questions
          /\ Len(result.val[1].answers) = result.val[1].header.answers
          /\ Len(result.val[1].authorities) = result.val[1].header.authoritative_entries
          /\ Len(result.val[1].additional) = result.val[1].header.additional_entries
    /\ pc = "from_buffer" =>
          /\ Len(dns_packet.answers) > 0 =>
                Len(dns_packet.questions) = dns_packet.header.questions
          /\ Len(dns_packet.authorities) > 0 =>
                Len(dns_packet.answers) = dns_packet.header.answers
          /\ Len(dns_packet.additional) > 0 =>
                Len(dns_packet.authorities) = dns_packet.header.authoritative_entries
    /\ (origin = "wire" /\ pc = "returned") =>
          (result.ok /\ result.val[1] = packet)
    /\ (pc = "returned" /\ ~result.ok) => result.val = <<>>

\* the response with one question, two answers, one authority and one
\* additional record is read
C9_Witness ==
    /\ origin = "wire"
    /\ pc = "returned"
    /\ result.ok
    /\ result.val[1].header.id = 43981
    /\ Len(result.val[1].questions) = 1
    /\ Len(result.val[1].answers) = 2
    /\ Len(result.val[1].authorities) = 1
    /\ Len(result.val[1].additional) = 1

\* The bytes at pos and pos + 1 are a compression pointer: its offset, as the
\* wire format gives it, or -1 when they are none.
PointerOffset(b, pos) ==
    IF pos + 1 < BufSize /\ b.buf[pos + 1] >= 192
    THEN (b.buf[pos + 1] - 192) * 256 + b.buf[pos + 2]
    ELSE -1

\* Followed from pos, pointer after pointer, the pointers of the buffer come
\* back to one already followed.
RECURSIVE PointerCycleFrom(_, _, _)
PointerCycleFrom(b, pos, seen) ==
    IF PointerOffset(b, pos) = -1 THEN FALSE
    ELSE IF pos \in seen THEN TRUE
    ELSE PointerCycleFrom(b, PointerOffset(b, pos), seen \cup {pos})

PointerCycle(b, pos) == PointerCycleFrom(b, pos, {})

\* C11: read_qname started where the pointers of the buffer form a cycle
\* never returns, neither a name nor an error: it stays in its loop, every
\* iteration at a pointer of the cycle and with another iteration to follow.
C11_PointerCycleNeverReturns ==
    (pc \in {"qname loop", "qname read"} /\ PointerCycle(buffer, start)) =>
        /\ pc = "qname loop"
        /\ qn.ctl = "loop"
        /\ qn.outstr = <<>>
        /\ PointerCycle(buffer, qn.pos)

\* of two pointers, each to the other, the first is met again after the
\* second
C11_Witness ==
    /\ pc = "qname loop"
    /\ PointerOffset(buffer, start) = start + 2
    /\ PointerOffset(buffer, start + 2) = start
    /\ qn.jumped
    /\ lastAt = start + 2
    /\ qn.pos = start

\* a call of DNSRecord::write that succeeded and put bytes in the buffer
PutBytes(r) == r.ok /\ r.val > 0

\* DNSRecord::write of the record puts bytes in the buffer
WritesBytes(rec) == PutBytes(RecordWrite(rec, BufferNew))

\* how many records of a section DNSRecord::write puts bytes in the buffer for
RecordsWritten(section) ==
    Cardinality({ i \in 1..Len(section) : WritesBytes(section[i]) })

\* C12: after a DNSPacket::write that succeeded, the counts of answers,
\* authorities and additional records in the header written, the u16 at
\* bytes 6, 8 and 10 of the buffer, are the numbers of records of these
\* sections whose bytes were written to the buffer.
C12_CountsAreRecordsWritten ==
    (origin = "packet" /\ pc = "written" /\ result.ok) =>
        /\ U16At(buffer, 6) = RecordsWritten(packet.answers)
        /\ U16At(buffer, 8) = RecordsWritten(packet.authorities)
        /\ U16At(buffer, 10) = RecordsWritten(packet.additional)

(***************************************************************************)
(* SpecRange: get_range is called on a full buffer, with start and         *)
(* range_len as its arguments; or a TXT record, or a name of one label, is *)
(* read whose payload or label get_range is called for: start is then the  *)
(* offset of the payload or label, range_len its length.                   *)
(***************************************************************************)

\* 512 bytes, none of them zero
FullBuffer == Received([i \in 1..BufSize |-> 1 + (i % 200)])

RangeStarts == {0, 1, 255, 448, 500, 509, 510, 511, 512, 513}

RangeLens == {0, 1, 2, 3, 12, 63, 64, 512}

\* "h", "Hi", "hello, world"
Payloads == { <<104>>, <<72, 105>>, <<104, 101, 108, 108, 111, 44, 32, 119, 111, 114, 108, 100>> }

\* one past the last byte of the payload or label: 512 when its last byte is
\* the last byte of the buffer
RangeEnds == {40, 300, 510, 511, 512}

\* a TXT record of the root name
TxtRecord(data) == [kind |-> "TXT", domain |-> <<>>, data |-> data, ttl |-> U32(300)]

TxtImage(data) == WireRecord(<<0>>, 16, 1, U32(300), data)

InitRange ==
    /\ result = None
    /\ packet = None /\ dns_packet = None /\ header = None
    /\ msgLen = 0 /\ qn = None /\ firstPtr = -1 /\ lastAt = -1 /\ origin = None
    /\ \/ /\ pc = "get_range"
          /\ start \in RangeStarts
          /\ range_len \in RangeLens
          /\ buffer = FullBuffer
          /\ record = None /\ qname = None
       \/ \E data \in Payloads : \E end \in RangeEnds :
            /\ pc = "read TXT"
            /\ range_len = Len(data)
            /\ start = end - Len(data)
            /\ record = TxtRecord(data)
            /\ qname = None
            /\ buffer = Seek(WriteBytes(Seek(BufferNew, start - 11).b, TxtImage(data)).b,
                             start - 11).b
       \/ \E label \in Payloads : \E end \in RangeEnds :
            /\ pc = "read label"
            /\ range_len = Len(label)
            /\ start = end - Len(label)
            /\ qname = label
            /\ record = None
            /\ buffer = Seek(WriteBytes(Seek(BufferNew, start - 1).b,
                                        <<Len(label)>> \o label).b,
                             start - 1).b

\* a call on the buffer has returned r
Called(r) ==
    /\ buffer' = r.b
    /\ result' = Returned(r)

GetRangeCall ==
    /\ pc = "get_range"
    /\ Called(GetRange(buffer, start, range_len))
    /\ pc' = "range returned"
    /\ UNCHANGED <<packet, dns_packet, header, record, qname, start, msgLen, qn, firstPtr, lastAt, origin, range_len>>

TxtReadCall ==
    /\ pc = "read TXT"
    /\ Called(RecordRead(buffer))
    /\ pc' = "TXT read"
    /\ UNCHANGED <<packet, dns_packet, header, record, qname, start, msgLen, qn, firstPtr, lastAt, origin, range_len>>

\* outstr is empty when read_qname is called; on an error, val is what
\* outstr holds then
LabelReadCall ==
    /\ pc = "read label"
    /\ Called(ReadQname(buffer, <<>>))
    /\ pc' = "label read"
    /\ UNCHANGED <<packet, dns_packet, header, record, qname, start, msgLen, qn, firstPtr, lastAt, origin, range_len>>

NextRange == GetRangeCall \/ TxtReadCall \/ LabelReadCall

SpecRange == InitRange /\ [][NextRange]_vars

\* C13: get_range(start, len) succeeds, with the len bytes from start on,
\* exactly when start + len <= 512; so that a TXT payload that ends with the
\* last byte of the buffer or before it is read, and so is a label that does.
C13_GetRangeWithinCapacity ==
    /\ pc = "range returned" =>
          /\ result.ok <=> (start + range_len <= BufSize)
          /\ result.ok => result.val = [i \in 1..range_len |-> buffer.buf[start + i]]
    /\ (pc = "TXT read" /\ start + range_len <= BufSize) =>
          (result.ok /\ result.val = record)
    /\ (pc = "label read" /\ start + range_len <= BufSize) =>
          result.val = ToLowercase(qname)

====
